---- MODULE Spec2Model ----
(***************************************************************************)
(* Model of the search engine pipeline: the frontier-driven crawler        *)
(* (src/search_engine/crawler.py), the streaming indexer                   *)
(* (src/search_engine/indexer.py) and the query entry points (main.py,     *)
(* app.py), all running as tasks of one asyncio event loop.  An action is  *)
(* the code a task runs between two suspension points.                     *)
(***************************************************************************)
EXTENDS Integers, Sequences, FiniteSets, TLC

(***************************************************************************)
(* Bounds of the model.                                                    *)
(***************************************************************************)
NPages == 5            \* pages served by the modelled web, numbered 1..NPages
MaxLimitBound == 3     \* MAX_LIMIT ranges over 1..MaxLimitBound
MaxBatchBound == 3     \* BATCH_SIZE ranges over 1..MaxBatchBound
MaxPuts == 3           \* records a producer puts on the page queue
PageQueueCapacity == 2 \* maxsize of the page queue
MaxResponseSize == 2   \* RESPONSE_SIZE ranges over 1..MaxResponseSize
MaxTopK == 2           \* TOP_K_PER_TERM ranges over 1..MaxTopK

VARIABLES
    MAX_LIMIT,          \* CommonVariables.MAX_LIMIT of this run
    BATCH_SIZE,         \* CommonVariables.BATCH_SIZE of this run
    RESPONSE_SIZE,      \* CommonVariables.RESPONSE_SIZE of this run
    TOP_K_PER_TERM,     \* CommonVariables.TOP_K_PER_TERM of this run
    web,                \* what the server answers for each page
    url_frontier,       \* WebCrawler.url_frontier (asyncio.Queue, FIFO)
    visited_urls,       \* WebCrawler.visited_urls
    crawlerPc,          \* position of start_crawler
    urls,               \* the batch of URLs whose requests are in flight
    jsonl,              \* records appended to PageModel.jsonl
    fetchLog,           \* every request sent, in order
    page_model_frontier,\* the queue main hands to start_indexing
    crawl_done,         \* the event main hands to start_indexing
    inverted_index,     \* Indexer.inverted_index: term -> doc_id -> score
    doc_store,          \* Indexer.doc_store: doc_id -> url, title, content
    inverted_index_file,\* what the inverted index file holds
    doc_store_file,     \* what the doc store file holds
    indexerPc,          \* position of start_indexing
    key_order,          \* the doc_ids in the order the indexer's dictionaries
                        \* got them (a dict iterates in insertion order)
    putLog,             \* every record put on page_model_frontier, in order
    ackLog,             \* every record start_indexing called task_done for
    queryView,          \* what the last query read, and how many records had
                        \* been acknowledged when it started
    failed,             \* the requests in flight (indexes of urls) that raise
                        \* because the client is closed
    client_closed,      \* crawler.async_rest_client has been closed
    shutdownPc          \* position of the shutdown code of main.py or app.py

crawlerVars == <<url_frontier, visited_urls, crawlerPc, urls, jsonl, fetchLog,
                 failed>>
configVars == <<MAX_LIMIT, BATCH_SIZE, RESPONSE_SIZE, TOP_K_PER_TERM, web>>
queueVars == <<page_model_frontier, crawl_done, putLog>>
indexerVars == <<inverted_index, doc_store, inverted_index_file, doc_store_file,
                 indexerPc, key_order, ackLog>>
shutdownVars == <<client_closed, shutdownPc>>

(***************************************************************************)
(* URLs.  A URL string is modelled by its components as urlparse splits    *)
(* them: scheme, netloc (with its letter case), the path as a page number  *)
(* plus extension plus a count of trailing slashes, query and fragment.    *)
(***************************************************************************)
ACCEPTED_DOMAINS == {"wikipedia.org", "en.wikipedia.org"}
SKIP_EXTENSIONS == {".css", ".js", ".png", ".jpg", ".jpeg", ".gif", ".svg",
                    ".ico", ".woff", ".woff2", ".ttf", ".pdf"}

\* The plain URL of page p: "https://en.wikipedia.org/<p>"; page 0 is the empty
\* path, so that page 0 with one trailing slash is the root path "/".
Href(p) == [scheme |-> "https", host |-> "en.wikipedia.org", upper |-> FALSE,
            page |-> p, ext |-> "", slashes |-> 0, query |-> "", frag |-> ""]

\* str.lower on a scheme.
LowerScheme(s) == IF s = "HTTPS" THEN "https" ELSE IF s = "HTTP" THEN "http" ELSE s

\* string_utils.normalize_url: scheme and netloc lowercased, trailing slashes
\* stripped from every path but "/", query kept, fragment dropped.
normalize_url(url) ==
    [url EXCEPT !.scheme = LowerScheme(url.scheme),
                !.upper = FALSE,
                !.slashes = IF url.page = 0 /\ url.ext = "" /\ url.slashes = 1
                            THEN 1 ELSE 0,
                !.frag = ""]

(***************************************************************************)
(* Text.  A text is the sequence of its maximal alphanumeric runs (what    *)
(* TOKEN_PATTERN.findall returns), each with its letter case.              *)
(***************************************************************************)
STOP_WORDS == {"a", "an", "the", "and", "or", "but", "is", "am", "are", "was",
               "were", "have", "has", "had", "of", "to", "in", "on", "for",
               "at", "by"}

\* str.lower on the words the modelled pages use.
Lower(w) == CASE w = "The" -> "the"
              [] w = "Fox" -> "fox"
              [] w = "Quick" -> "quick"
              [] w = "Of" -> "of"
              [] OTHER -> w

(***************************************************************************)
(* The web.  A page is what the server answers for it: kind is "html" or   *)
(* "xml" for a 200 answer of that content type, "binary" for a 200 answer  *)
(* of another content type, "status" for a non-200 answer and "exception"  *)
(* for a request that raised (gather returns the exception as a value).    *)
(***************************************************************************)
Body(p) == CASE p = 1 -> <<"The", "quick", "fox">>
             [] p = 2 -> <<"fox", "Fox", "of">>
             [] p = 3 -> <<"alpha", "beta">>
             [] p = 4 -> <<"beta", "the", "beta">>
             [] OTHER -> <<"quick">>

Title(p) == CASE p = 1 -> <<"Quick", "fox">>
              [] p = 2 -> <<"fox">>
              [] p = 3 -> <<"Of", "alpha">>
              [] OTHER -> <<>>

Headings(p) == CASE p = 1 -> << <<"The", "fox">>, <<"alpha">> >>
                 [] p = 4 -> << <<"beta">> >>
                 [] OTHER -> <<>>

Slash(h) == [h EXCEPT !.slashes = 1]
Frag(h) == [h EXCEPT !.frag = "top"]

\* The anchors a page may carry.
SeedLinkLists ==
    { <<>>,
      <<Href(2), Href(3), Href(4), Href(5)>>,
      <<Href(2), Href(2), Href(3)>>,
      <<Slash(Href(2)), Frag(Href(2))>>,
      <<Href(1), Href(3)>>,
      <<[Href(2) EXCEPT !.scheme = "http"], [Href(3) EXCEPT !.ext = ".png"],
        [Href(3) EXCEPT !.ext = ".png", !.query = "v"],
        [Href(4) EXCEPT !.host = "evil.com"], [Href(4) EXCEPT !.upper = TRUE],
        Href(5)>> }

SecondLinkLists == { <<>>, <<Href(1), Href(3)>> }

OtherLinkLists == { <<>>, <<Href(2), Href(4)>> }

\* The answers of page 2; a URL with an extension is answered as "binary".
SecondKinds == {"html", "exception", "status"}

\* The web where page 1 carries the anchors l1, page 2 the anchors l2 and is
\* answered as kind2, every other page carries l3, and page 3 has the text of
\* page 2 when same.
WebOf(l1, l2, l3, kind2, same) ==
    [p \in 1..NPages |->
        [kind |-> IF p = 2 THEN kind2 ELSE IF p = 3 THEN "xml" ELSE "html",
         title |-> IF p = 3 /\ same THEN Title(2) ELSE Title(p),
         headings |-> IF p = 3 /\ same THEN Headings(2) ELSE Headings(p),
         body |-> IF p = 3 /\ same THEN Body(2) ELSE Body(p),
         hrefs |-> IF p = 1 THEN l1 ELSE IF p = 2 THEN l2 ELSE l3]]

\* Two webs without anchors; in one, two pages have the same text.
IndexerWebs ==
    { WebOf(<<>>, <<>>, <<>>, "html", same) : same \in BOOLEAN }

\* A web of short documents without anchors: in page 1 two words occur once
\* in the body, page 2 has one of them in a heading, page 3 the other one in
\* the title.
QueryWebs ==
    { [p \in 1..NPages |->
        [kind |-> "html",
         title |-> IF p = 3 THEN <<"Of", "alpha">> ELSE <<>>,
         headings |-> IF p = 2 THEN << <<"the", "fox">> >> ELSE <<>>,
         body |-> IF p = 1 THEN <<"The", "fox", "alpha">>
                  ELSE IF p \in {2, 3} THEN <<>> ELSE <<"gamma">>,
         hrefs |-> <<>>]] }

\* A web of three documents without anchors that have a word equally often:
\* two of them have the same two words in different order.
TieWebs ==
    { [p \in 1..NPages |->
        [kind |-> "html", title |-> <<>>, headings |-> <<>>,
         body |-> CASE p = 1 -> <<"fox", "alpha">>
                    [] p = 2 -> <<"alpha", "fox">>
                    [] p = 3 -> <<"fox">>
                    [] OTHER -> <<"gamma">>,
         hrefs |-> <<>>]] }

\* A web whose page 2 is a 200 HTML answer that the parser or an extraction
\* raises on.
FaultWebs ==
    { WebOf(<<Href(2), Href(3), Href(4), Href(5)>>, <<>>, <<>>, "parse_error",
            FALSE) }

Webs ==
    { WebOf(l1, l2, l3, kind2, FALSE) :
      l1 \in SeedLinkLists, l2 \in SecondLinkLists, l3 \in OtherLinkLists,
      kind2 \in SecondKinds }
    \cup IndexerWebs \cup QueryWebs \cup FaultWebs \cup TieWebs

(***************************************************************************)
(* HTML parsing (utils/parse_html.py) and the page model.                  *)
(***************************************************************************)
RECURSIVE Flatten(_)
Flatten(texts) == IF texts = <<>> THEN <<>> ELSE Head(texts) \o Flatten(Tail(texts))

\* The accepted domains the netloc of h ends with (str.endswith is case
\* sensitive, so an upper-case netloc ends with none).
HostSuffixes(h) ==
    IF h.upper THEN {}
    ELSE CASE h.host = "en.wikipedia.org" -> {"en.wikipedia.org", "wikipedia.org"}
           [] h.host = "wikipedia.org" -> {"wikipedia.org"}
           [] h.host = "evilwikipedia.org" -> {"wikipedia.org"}
           [] OTHER -> {}

\* href.lower().endswith(ext): the whole href string is tested, so the
\* extension counts only when nothing follows the path.
EndsWithSkipExtension(h) ==
    h.frag = "" /\ h.query = "" /\ h.slashes = 0 /\ h.ext \in SKIP_EXTENSIONS

\* parse_html.extract_outgoing_links_from_soup, one anchor.
LinkAccepted(h) ==
    /\ h.scheme = "https"
    /\ ~EndsWithSkipExtension(h)
    /\ HostSuffixes(h) \cap ACCEPTED_DOMAINS # {}

\* parse_html.extract_outgoing_links_from_soup: the accepted anchors, in
\* document order.
extract_outgoing_links_from_soup(hrefs) == SelectSeq(hrefs, LinkAccepted)

\* parse_html.extract_content_from_soup: the text of the whole document, the
\* title and the headings included.
extract_content_from_soup(page) ==
    page.title \o Flatten(page.headings) \o page.body

\* string_utils.generate_content_hash: SHA-256 is a function of the content and
\* of nothing else, and distinct contents get distinct digests.
generate_content_hash(content) == [sha256 |-> content]

\* What the server answers for the URL u.
Fetch(u) ==
    IF u.scheme = "https" /\ u.host = "en.wikipedia.org" /\ u.page \in 1..NPages
    THEN IF u.ext = "" THEN [url |-> u, page |-> web[u.page]]
         ELSE [url |-> u, page |-> [kind |-> "binary"]]
    ELSE [url |-> u, page |-> [kind |-> "exception"]]

\* What gather returns for a request whose send raised: AsyncClient.send
\* raises RuntimeError on a closed client, and a request in flight ends with
\* an error when the connections are closed under it.
SendRaises(u) == [url |-> u, page |-> [kind |-> "exception"]]

\* WebCrawler._parse_response_and_make_page_model: the PageModel of a response,
\* or None.
None == [none |-> TRUE]

\* The tests of _parse_response_and_make_page_model: the response is an
\* httpx.Response, its status is 200, its content type has html or xml, and
\* parsing and extraction raise nothing.
ResponseAccepted(page) == page.kind \in {"html", "xml"}

parse_response_and_make_page_model(response) ==
    IF ~ResponseAccepted(response.page) THEN None
    ELSE LET content == extract_content_from_soup(response.page)
         IN  [doc_id |-> generate_content_hash(content),
              url |-> response.url,
              final_url |-> response.url,
              title |-> response.page.title,
              headings |-> response.page.headings,
              content |-> content,
              links |-> extract_outgoing_links_from_soup(response.page.hrefs)]

(***************************************************************************)
(* The crawler (crawler.py).                                               *)
(***************************************************************************)
Min(a, b) == IF a < b THEN a ELSE b

RECURSIVE DrainBatch(_, _, _, _)
\* The while loop of _fetch_pages_for_urls_and_return_response.
DrainBatch(frontier, visited, batch, count) ==
    IF /\ frontier # <<>>
       /\ count <= BATCH_SIZE
       /\ Cardinality(visited) <= MAX_LIMIT
    THEN LET url == normalize_url(Head(frontier))
         IN  DrainBatch(Tail(frontier), visited \cup {url}, Append(batch, url),
                        count + 1)
    ELSE [frontier |-> frontier, visited |-> visited, batch |-> batch]

\* A test that lets every URL through, visited or not.
NotVisitedAlways(visited, normalized) == TRUE

\* The test of the for loop of _add_urls_in_queue.
NotVisited(visited, normalized) == normalized \notin visited

\* _add_urls_in_queue taking the whole capacity for the free space.
AvailableSpaceOfEmptyQueue(queue_size) == MAX_LIMIT

\* _add_urls_in_queue: the free space of the frontier, whose maxsize is
\* MAX_LIMIT.
AvailableSpace(queue_size) == MAX_LIMIT - queue_size

\* WebCrawler._add_urls_in_queue: the URLs the call puts on the frontier, in
\* order.  The visited set does not change during the for loop, so the loop
\* puts the normalised forms it does not find there.
add_urls_in_queue(frontier, visited, links) ==
    LET queue_size == Len(frontier)
        available_space == AvailableSpace(queue_size)
        urls_to_add == Min(Len(links), available_space)
        normalized == [i \in 1..urls_to_add |-> normalize_url(links[i])]
    IN  IF available_space <= 0 THEN <<>>
        ELSE SelectSeq(normalized, LAMBDA u : NotVisited(visited, u))

RECURSIVE ProcessResponses(_, _, _, _)
\* The for loop of start_crawler over the responses of one batch: the frontier
\* and the JSONL file after it.  A put on a frontier that holds MAX_LIMIT URLs
\* suspends the task; the task is the only one that takes URLs from the
\* frontier, so it stays suspended.
ProcessResponses(responses, frontier, visited, file) ==
    IF responses = <<>> \/ Cardinality(visited) > MAX_LIMIT
    THEN [frontier |-> frontier, jsonl |-> file, blocked |-> FALSE]
    ELSE LET page_model == parse_response_and_make_page_model(Head(responses))
         IN  IF page_model = None
             THEN ProcessResponses(Tail(responses), frontier, visited, file)
             ELSE LET puts == add_urls_in_queue(frontier, visited,
                                                page_model.links)
                      room == MAX_LIMIT - Len(frontier)
                  IN  IF Len(puts) > room
                      THEN [frontier |-> frontier \o SubSeq(puts, 1, room),
                            jsonl |-> Append(file, page_model),
                            blocked |-> TRUE]
                      ELSE ProcessResponses(Tail(responses), frontier \o puts,
                                            visited, Append(file, page_model))

\* What gather returns for the batch in flight, in the order of the requests.
Responses ==
    [i \in 1..Len(urls) |-> IF i \in failed THEN SendRaises(urls[i])
                            ELSE Fetch(urls[i])]

\* start_crawler: the loop condition holds, a batch is drained from the frontier
\* and its requests are sent; the task suspends in gather.
CrawlerFetch ==
    /\ crawlerPc = "loop"
    /\ url_frontier # <<>>
    /\ Cardinality(visited_urls) < MAX_LIMIT
    /\ LET d == DrainBatch(url_frontier, visited_urls, <<>>, 1)
       IN  /\ url_frontier' = d.frontier
           /\ visited_urls' = d.visited
           /\ urls' = d.batch
           /\ fetchLog' = IF client_closed THEN fetchLog
                          ELSE fetchLog \o d.batch
           /\ failed' = IF client_closed THEN 1..Len(d.batch) ELSE {}
    /\ crawlerPc' = "gather"
    /\ UNCHANGED <<jsonl, configVars, queueVars, indexerVars, queryView,
                   shutdownVars>>

\* start_crawler: gather returns the responses of the batch (exceptions as
\* values) and the for loop handles them one after the other.
CrawlerHandleResponses ==
    /\ crawlerPc = "gather"
    /\ LET r == ProcessResponses(Responses, url_frontier, visited_urls, jsonl)
       IN  /\ url_frontier' = r.frontier
           /\ jsonl' = r.jsonl
           /\ crawlerPc' = IF r.blocked THEN "blocked" ELSE "loop"
    /\ urls' = <<>>
    /\ failed' = {}
    /\ UNCHANGED <<visited_urls, fetchLog, configVars, queueVars, indexerVars,
                   queryView, shutdownVars>>

\* start_crawler: the loop condition fails; the method logs and returns.
CrawlerExit ==
    /\ crawlerPc = "loop"
    /\ ~(url_frontier # <<>> /\ Cardinality(visited_urls) < MAX_LIMIT)
    /\ crawlerPc' = "done"
    /\ UNCHANGED <<url_frontier, visited_urls, urls, jsonl, fetchLog, failed,
                   configVars, queueVars, indexerVars, queryView, shutdownVars>>

(***************************************************************************)
(* The indexer (indexer.py).                                               *)
(***************************************************************************)
WEIGHT_CONTENT == 1
WEIGHT_HEADING == 4
WEIGHT_TITLE == 8

EmptyMap == [x \in {} |-> 0]

Range(seq) == {seq[i] : i \in 1..Len(seq)}

\* The tokeniser the indexer and the query parser import: every match of
\* TOKEN_PATTERN, lowercased, in order and with repetitions.
tokenize_content_into_list_of_words(text) == [i \in 1..Len(text) |-> Lower(text[i])]

\* A count that records whether the term occurs, not how often.
CounterOfSet(tokens, term) == IF term \in Range(tokens) THEN 1 ELSE 0

\* collections.Counter(tokens)[term].
Counter(tokens, term) == Cardinality({i \in 1..Len(tokens) : tokens[i] = term})

\* A list element that is not a string (a None among the headings).
NotAString == <<"<not a str>">>

\* " ".join(headings) raises TypeError when an element is not a string.
JoinRaises(headings) == \E i \in 1..Len(headings) : headings[i] = NotAString

\* TOKEN_PATTERN.findall(text) raises TypeError when text is not a string.
TokenizeRaises(text) == text = NotAString

\* A doc_id that is not hashable (a list): using it as a dict key raises
\* TypeError.
Unhashable == [sha256 |-> NotAString]

Hashable(doc_id) == doc_id # Unhashable

Fields == {"content", "headings", "title"}

\* The fields _create_inverted_index_for_page_model has tokenised and summed
\* into term_scores when it leaves the three field blocks: all of them, or
\* those before the first field whose tokenising raises.
FieldsTokenised(model) ==
    IF TokenizeRaises(model.content) THEN {}
    ELSE IF JoinRaises(model.headings) THEN {"content"}
    ELSE IF TokenizeRaises(model.title) THEN {"content", "headings"}
    ELSE Fields

\* A stop-word test that lets every term through.
IsStopWordNever(term) == FALSE

\* The test `term in CommonVariables.STOP_WORDS` of the three field loops.
IsStopWord(term) == term \in STOP_WORDS

\* The term_scores map _create_inverted_index_for_page_model accumulates.
term_scores(model) ==
    LET done == FieldsTokenised(model)
        content == IF "content" \in done
                   THEN tokenize_content_into_list_of_words(model.content)
                   ELSE <<>>
        headings == IF "headings" \in done
                    THEN tokenize_content_into_list_of_words(
                             Flatten(model.headings))
                    ELSE <<>>
        title == IF "title" \in done
                 THEN tokenize_content_into_list_of_words(model.title)
                 ELSE <<>>
        terms == {t \in Range(content) \cup Range(headings) \cup Range(title) :
                    ~IsStopWord(t)}
    IN  [t \in terms |-> Counter(content, t) * WEIGHT_CONTENT
                         + Counter(headings, t) * WEIGHT_HEADING
                         + Counter(title, t) * WEIGHT_TITLE]

\* A merge that stores a score only for a term the index does not have yet.
MergeScoresNewTermsOnly(index, doc_id, scores) ==
    [t \in DOMAIN index \cup DOMAIN scores |->
        IF t \in DOMAIN index THEN index[t]
        ELSE [d \in {doc_id} |-> scores[t]]]

\* A merge that assigns the score: self.inverted_index[term][doc_id] = score.
MergeScoresAssign(index, doc_id, scores) ==
    [t \in DOMAIN index \cup DOMAIN scores |->
        IF t \notin DOMAIN scores THEN index[t]
        ELSE LET posting == IF t \in DOMAIN index THEN index[t] ELSE EmptyMap
             IN  [d \in DOMAIN posting \cup {doc_id} |->
                    IF d = doc_id THEN scores[t] ELSE posting[d]]]

\* A merge that starts the posting of every term of the record afresh:
\* self.inverted_index[term] = {doc_id: score}.
MergeScoresFreshPosting(index, doc_id, scores) ==
    [t \in DOMAIN index \cup DOMAIN scores |->
        IF t \notin DOMAIN scores THEN index[t]
        ELSE [d \in {doc_id} |-> scores[t]]]

\* The merge loop: self.inverted_index[term][doc_id] += score for every term.
MergeScores(index, doc_id, scores) ==
    [t \in DOMAIN index \cup DOMAIN scores |->
        IF t \notin DOMAIN scores THEN index[t]
        ELSE LET posting == IF t \in DOMAIN index THEN index[t] ELSE EmptyMap
             IN  [d \in DOMAIN posting \cup {doc_id} |->
                    (IF d \in DOMAIN posting THEN posting[d] ELSE 0)
                    + (IF d = doc_id THEN scores[t] ELSE 0)]]

\* The keys of term_scores in the order the merge loop visits them: the order
\* in which the terms were first added, content before headings before title.
MergeOrder(model) ==
    LET tokens == tokenize_content_into_list_of_words(
                      model.content \o Flatten(model.headings) \o model.title)
    IN  SelectSeq(tokens, LAMBDA t : ~IsStopWord(t))

\* The merge loop with a doc_id that is not hashable: in the first round
\* self.inverted_index[term] is evaluated, which gives a term the index does
\* not have an empty posting, and the subscript [doc_id] raises TypeError.
MergeRaises(index, order) ==
    IF order = <<>> THEN index
    ELSE [t \in DOMAIN index \cup {Head(order)} |->
            IF t \in DOMAIN index THEN index[t] ELSE EmptyMap]

\* Whether _create_inverted_index_for_page_model raises for the model: while
\* it tokenises a field, or in the merge loop.
IndexUpdateRaises(model) ==
    \/ FieldsTokenised(model) # Fields
    \/ ~Hashable(model.doc_id) /\ MergeOrder(model) # <<>>

\* Whether one of the two updates of the try block raises for the model.
UpdateRaises(model) == IndexUpdateRaises(model) \/ ~Hashable(model.doc_id)

\* Indexer._create_inverted_index_for_page_model: the index after the call,
\* whether it returns or raises.
create_inverted_index_for_page_model(index, model) ==
    IF FieldsTokenised(model) # Fields THEN index
    ELSE IF Hashable(model.doc_id)
         THEN MergeScores(index, model.doc_id, term_scores(model))
         ELSE MergeRaises(index, MergeOrder(model))

\* A doc store keyed by the URL of the page instead of its doc_id.
create_doc_store_keyed_by_url(store, model) ==
    [d \in DOMAIN store \cup {model.final_url} |->
        IF d = model.final_url
        THEN [url |-> model.final_url, title |-> model.title,
              content |-> model.content]
        ELSE store[d]]

\* Indexer._create_doc_store_for_page_model: the doc store after the call.
create_doc_store_for_page_model(store, model) ==
    [d \in DOMAIN store \cup {model.doc_id} |->
        IF d = model.doc_id
        THEN [url |-> model.final_url, title |-> model.title,
              content |-> model.content]
        ELSE store[d]]

\* What a file holds: nothing yet, a whole JSON object, or the part of an
\* object that had been written when the write failed.
NoFile == [state |-> "absent", json |-> EmptyMap]

\* json_path.open("w") and json.dump(obj, f) of the two write methods: open
\* truncates the file in place and dump writes the object piece by piece.  A
\* write that fails (disk full, I/O error, the process stopped) leaves the
\* pieces written so far: here none, the empty file open left.
json_dump(obj, fails) ==
    IF fails THEN [state |-> "partial", json |-> EmptyMap]
    ELSE [state |-> "complete", json |-> obj]

\* How the file system answers the two writes of the finally block.
WriteOutcomes == {"written", "index_write_fails", "doc_store_write_fails"}

\* A handler that puts the dictionaries back as they were when a write fails.
memory_rolled_back(before, after) == before

\* The dictionary start_indexing leaves in memory when a write raised: the
\* updated one, as no handler undoes the update.
memory_after_failed_write(before, after) == after

\* A finally block that calls task_done first and writes the files after it.
task_done_before_writes(outcome) == TRUE

\* Whether the finally block of start_indexing gets to task_done, which
\* follows the two writes: a write that raises leaves the block.
task_done_reached(outcome) == outcome = "written"

\* An exit test that looks at the event alone.
IndexerMayExitOnDone(done, queue) == done

\* The loop exit test of start_indexing.
IndexerMayExit(done, queue) == done /\ queue = <<>>

\* start_indexing, the top of the loop: leave it, or go on to wait for a record.
IndexerCheck ==
    /\ indexerPc = "check"
    /\ indexerPc' = IF IndexerMayExit(crawl_done, page_model_frontier)
                    THEN "exited" ELSE "wait"
    /\ UNCHANGED <<inverted_index, doc_store, inverted_index_file,
                   doc_store_file, key_order, ackLog>>
    /\ UNCHANGED <<configVars, crawlerVars, queueVars, queryView, shutdownVars>>

\* start_indexing, wait_for(get): the wait times out on an empty queue;
\* otherwise the record is taken, index and doc store are updated, both files
\* are rewritten and the record is acknowledged.  None of the coroutines
\* awaited after get suspends, so no other task runs in between.  An update
\* that raises leaves the method through the finally block; a write that
\* raises leaves it from inside the finally block, before what follows there.
IndexerWait ==
    /\ indexerPc = "wait"
    /\ IF page_model_frontier = <<>>
       THEN /\ indexerPc' = "check"
            /\ UNCHANGED <<inverted_index, doc_store, inverted_index_file,
                           doc_store_file, key_order, ackLog,
                           page_model_frontier>>
       ELSE \E outcome \in WriteOutcomes :
            LET model == Head(page_model_frontier)
                raised == UpdateRaises(model)
                index == create_inverted_index_for_page_model(inverted_index,
                                                              model)
                store == IF raised THEN doc_store
                         ELSE create_doc_store_for_page_model(doc_store, model)
                index_write_fails == outcome = "index_write_fails"
                doc_store_write_fails == outcome = "doc_store_write_fails"
            IN  /\ page_model_frontier' = Tail(page_model_frontier)
                /\ inverted_index' =
                      IF outcome = "written" THEN index
                      ELSE memory_after_failed_write(inverted_index, index)
                /\ doc_store' =
                      IF outcome = "written" THEN store
                      ELSE memory_after_failed_write(doc_store, store)
                /\ key_order' = IF raised \/ model.doc_id \in Range(key_order)
                                THEN key_order
                                ELSE Append(key_order, model.doc_id)
                /\ inverted_index_file' = json_dump(index, index_write_fails)
                /\ doc_store_file' = IF index_write_fails THEN doc_store_file
                                     ELSE json_dump(store, doc_store_write_fails)
                /\ ackLog' = IF task_done_reached(outcome)
                             THEN Append(ackLog, model) ELSE ackLog
                /\ indexerPc' = IF raised \/ outcome # "written"
                                THEN "crashed" ELSE "check"
    /\ UNCHANGED <<crawl_done, putLog, configVars, crawlerVars, queryView,
                   shutdownVars>>

(***************************************************************************)
(* Queries (main.py, app.py): the query coroutine runs on the event loop   *)
(* of the crawler and the indexer and never suspends.                      *)
(***************************************************************************)
\* The query texts of the model: one word, a stop word with a word the index
\* may not have, two words, and a word given three times with another.
Queries == { <<"fox">>, <<"The", "beta", "alpha">>, <<"fox", "alpha">>,
             <<"alpha", "Fox", "fox", "fox">> }

\* The elements of a sequence in the order of their first occurrence: the key
\* order of a dict filled by assignments in the order of the sequence.
FirstOccurrences(seq) ==
    LET keep == {i \in 1..Len(seq) : \A j \in 1..(i - 1) : seq[j] # seq[i]}
    IN  [k \in 1..Cardinality(keep) |->
            seq[CHOOSE i \in keep : Cardinality({j \in keep : j < i}) = k - 1]]

\* sorted(keys, key=val, reverse=True): descending, equal values in the order
\* of the input.
SortedDescending(keys, val) ==
    LET n == Len(keys)
        rank(i) == Cardinality({j \in 1..n :
                       \/ val[keys[j]] > val[keys[i]]
                       \/ val[keys[j]] = val[keys[i]] /\ j < i})
    IN  [k \in 1..n |-> keys[CHOOSE i \in 1..n : rank(i) = k - 1]]

\* heapq.nlargest(n, d.items(), key=lambda it: it[1]) for a dict with the
\* given key order: the keys of the n largest values, largest first, equal
\* values in the order of the dict.
nlargest(n, keys, val) ==
    LET ordered == SortedDescending(keys, val)
    IN  SubSeq(ordered, 1, Min(n, Len(ordered)))

\* The index after a subscript lookup on the defaultdict, which stores an
\* empty posting for a key it does not have.
defaultdict_getitem(dict, key) ==
    IF key \in DOMAIN dict THEN dict ELSE dict @@ (key :> EmptyMap)

\* The dictionary after dict.get(key): get stores nothing, also on a
\* defaultdict.
dict_get(dict, key) == dict

RECURSIVE dict_after_lookups(_, _)
\* The dictionary after a get for every key of the sequence.
dict_after_lookups(dict, keys) ==
    IF keys = <<>> THEN dict
    ELSE dict_after_lookups(dict_get(dict, Head(keys)), Tail(keys))

\* The tokens of the first loop of generate_response_for_query that reach
\* posting_sets: not a stop word, and with a posting that is not empty.
matched_tokens(tokens, index) ==
    SelectSeq(tokens, LAMBDA t : /\ t \notin STOP_WORDS
                                 /\ t \in DOMAIN index
                                 /\ DOMAIN index[t] # {})

\* posting.items() when the posting has at most TOP_K_PER_TERM entries,
\* nlargest of them otherwise: the doc_ids, in the order of the candidates.
candidates(posting, order) ==
    LET items == SelectSeq(order, LAMBDA d : d \in DOMAIN posting)
    IN  IF Len(items) <= TOP_K_PER_TERM THEN items
        ELSE nlargest(TOP_K_PER_TERM, items, posting)

\* doc_scores[doc_id] += s for the doc_ids of a sequence, none of them twice:
\* doc_scores is a dict, here its keys in order and its values.
add_scores(doc_scores, docs, posting) ==
    [keys |-> doc_scores.keys
              \o SelectSeq(docs, LAMBDA d : d \notin Range(doc_scores.keys)),
     val |-> [d \in Range(doc_scores.keys) \cup Range(docs) |->
                (IF d \in Range(doc_scores.keys) THEN doc_scores.val[d] ELSE 0)
                + (IF d \in Range(docs) THEN posting[d] ELSE 0)]]

\* Picks put in front of the selection: selected_doc_ids.insert(0, doc_id).
insert_selected(selected, picks) ==
    SelectSeq(picks, LAMBDA d : d \notin Range(selected)) \o selected

\* The loops that append the picks not yet selected to selected_doc_ids.
append_selected(selected, picks) ==
    selected \o SelectSeq(picks, LAMBDA d : d \notin Range(selected))

RECURSIVE or_backfill(_, _, _, _, _, _)
\* The OR backfill loop over token_postings.items(): for each token its
\* candidates that are not selected are added to doc_scores (which still holds
\* the scores of the AND docs), and then, inside the same iteration, the
\* remaining_needed largest entries of doc_scores are appended unless selected.
or_backfill(toks, index, order, doc_scores, selected, remaining_needed) ==
    IF toks = <<>> THEN selected
    ELSE LET posting == index[Head(toks)]
             cands == SelectSeq(candidates(posting, order),
                                LAMBDA d : d \notin Range(selected))
             scores == add_scores(doc_scores, cands, posting)
             top_or == nlargest(remaining_needed, scores.keys, scores.val)
         IN  or_backfill(Tail(toks), index, order, scores,
                         append_selected(selected, top_or), remaining_needed)

RECURSIVE or_only_scores(_, _, _, _)
\* The loop of the branch without AND hits: doc_scores over all the tokens.
or_only_scores(toks, index, order, doc_scores) ==
    IF toks = <<>> THEN doc_scores
    ELSE LET posting == index[Head(toks)]
         IN  or_only_scores(Tail(toks), index, order,
                            add_scores(doc_scores, candidates(posting, order),
                                       posting))

RECURSIVE SumOver(_, _, _)
\* The sum of index[t][doc_id] over the tokens t of a sequence.
SumOver(toks, index, doc_id) ==
    IF toks = <<>> THEN 0
    ELSE index[Head(toks)][doc_id] + SumOver(Tail(toks), index, doc_id)

\* The intersection loop of generate_response_for_query: the doc_ids that
\* are in the posting of every matched token.
common_set(query, index) ==
    LET toks == matched_tokens(tokenize_content_into_list_of_words(query), index)
    IN  IF toks = <<>> THEN {}
        ELSE {d \in DOMAIN index[toks[1]] :
                \A i \in 1..Len(toks) : d \in DOMAIN index[toks[i]]}

\* QueryParser.generate_response_for_query: the result list.  order is the
\* insertion order of the doc_ids in the dictionaries; common_keys is
\* common_set in the order in which the set iterates, which varies from run
\* to run with the hash seed of str.
generate_response_for_query(query, index, store, order, common_keys) ==
    LET resp_size == RESPONSE_SIZE
        tokens == tokenize_content_into_list_of_words(query)
        posting_tokens == matched_tokens(tokens, index)
        token_postings == FirstOccurrences(posting_tokens)
        and_scores == [keys |-> common_keys,
                       val |-> [d \in Range(common_keys) |->
                                   SumOver(token_postings, index, d)]]
        common_docs_ordered == SortedDescending(common_keys, and_scores.val)
        and_selected == SubSeq(common_docs_ordered, 1,
                               Min(resp_size, Len(common_docs_ordered)))
        empty_scores == [keys |-> <<>>, val |-> EmptyMap]
        or_scores == or_only_scores(token_postings, index, order, empty_scores)
        selected_doc_ids ==
            IF common_keys # <<>>
            THEN IF Len(and_selected) >= resp_size THEN and_selected
                 ELSE or_backfill(token_postings, index, order, and_scores,
                                  and_selected, resp_size - Len(and_selected))
            ELSE append_selected(<<>>, nlargest(resp_size, or_scores.keys,
                                                or_scores.val))
        found == SelectSeq(selected_doc_ids, LAMBDA d : d \in DOMAIN store)
    IN  IF posting_tokens = <<>> THEN <<>>
        ELSE [i \in 1..Len(found) |->
                 [doc_id |-> found[i], url |-> store[found[i]].url,
                  title |-> store[found[i]].title]]

\* The keys the query looks up in the index: the tokens that are not stop
\* words.
index_lookups(query) ==
    SelectSeq(tokenize_content_into_list_of_words(query),
              LAMBDA t : t \notin STOP_WORDS)

\* The orders in which a set of doc_ids may iterate.
SetOrders(docs) ==
    {o \in [1..Cardinality(docs) -> docs] : Range(o) = docs}

NoQuery == [query |-> <<>>, inverted_index |-> EmptyMap, doc_store |-> EmptyMap,
            acked |-> 0, results |-> <<>>]

\* A query (main.py, app.py): generate_response_for_query is handed the
\* indexer's own dictionaries; it reads the index and the doc store as they
\* are when the coroutine runs and leaves them as its lookups leave them.
Query(query) ==
    /\ \E common_keys \in SetOrders(common_set(query, inverted_index)) :
          queryView' = [query |-> query,
                        inverted_index |-> inverted_index,
                        doc_store |-> doc_store,
                        acked |-> Len(ackLog),
                        results |-> generate_response_for_query(
                                        query, inverted_index, doc_store,
                                        key_order, common_keys)]
    /\ queryView' # queryView
    /\ inverted_index' = dict_after_lookups(inverted_index, index_lookups(query))
    /\ doc_store' = dict_after_lookups(
                        doc_store, [i \in 1..Len(queryView'.results) |->
                                       queryView'.results[i].doc_id])
    /\ UNCHANGED <<inverted_index_file, doc_store_file, indexerPc, key_order,
                   ackLog>>
    /\ UNCHANGED <<configVars, crawlerVars, queueVars, shutdownVars>>

(***************************************************************************)
(* The program.                                                            *)
(***************************************************************************)
\* CommonVariables.SEED_URLS: WebCrawler.__init__ puts them on the frontier as
\* they are written (put_nowait raises when they do not fit).
SeedLists == { <<Href(1)>>, <<Href(1), Slash(Href(1))>>,
               <<[Href(1) EXCEPT !.upper = TRUE], Href(2)>> }

Init ==
    /\ MAX_LIMIT \in 1..MaxLimitBound
    /\ BATCH_SIZE \in 1..MaxBatchBound
    /\ RESPONSE_SIZE \in 1..MaxResponseSize
    /\ TOP_K_PER_TERM \in 1..MaxTopK
    /\ web \in Webs
    /\ url_frontier \in {s \in SeedLists : Len(s) <= MAX_LIMIT}
    /\ visited_urls = {}
    /\ crawlerPc = "loop"
    /\ urls = <<>>
    /\ jsonl = <<>>
    /\ fetchLog = <<>>
    /\ page_model_frontier = <<>>
    /\ crawl_done = FALSE
    /\ inverted_index = EmptyMap
    /\ doc_store = EmptyMap
    /\ inverted_index_file = NoFile
    /\ doc_store_file = NoFile
    /\ indexerPc = "check"
    /\ key_order = <<>>
    /\ putLog = <<>>
    /\ ackLog = <<>>
    /\ queryView = NoQuery
    /\ failed = {}
    /\ client_closed = FALSE
    /\ shutdownPc = "running"

vars == <<MAX_LIMIT, BATCH_SIZE, RESPONSE_SIZE, TOP_K_PER_TERM, web,
          url_frontier, visited_urls, crawlerPc, urls, jsonl, fetchLog, page_model_frontier, crawl_done,
          inverted_index, doc_store, inverted_index_file, doc_store_file,
          indexerPc, key_order, putLog, ackLog, queryView, failed, client_closed,
          shutdownPc>>

\* The program of main.py and app.py: crawler, indexer and queries.
Next ==
    \/ CrawlerFetch
    \/ CrawlerHandleResponses
    \/ CrawlerExit
    \/ IndexerCheck
    \/ IndexerWait
    \/ \E query \in Queries : Query(query)

Spec == Init /\ [][Next]_vars

\* The two background tasks alone, for the largest configuration, over the
\* webs whose pages are all answered with a document.
CrawlerStep == CrawlerFetch \/ CrawlerHandleResponses \/ CrawlerExit

IndexerStep == IndexerCheck \/ IndexerWait

FairWebs ==
    { WebOf(l1, <<Href(1), Href(3)>>, l3, "html", FALSE) :
      l1 \in SeedLinkLists, l3 \in OtherLinkLists }

FairInit ==
    /\ Init
    /\ MAX_LIMIT = MaxLimitBound
    /\ BATCH_SIZE = MaxBatchBound
    /\ RESPONSE_SIZE = MaxResponseSize
    /\ TOP_K_PER_TERM = MaxTopK
    /\ web \in FairWebs

FairNext == CrawlerStep \/ IndexerStep

\* The event loop runs every task that is ready, and every request of a batch
\* returns (an answer, an error or the 10 s timeout).
FairSpec ==
    /\ FairInit
    /\ [][FairNext]_vars
    /\ WF_vars(CrawlerStep)
    /\ WF_vars(IndexerStep)

(***************************************************************************)
(* start_indexing against a producer.  crawler.py neither puts a record on *)
(* the page queue nor sets the event, so under Spec the indexer only ever  *)
(* polls an empty queue.  Here the queue and the event are driven by a     *)
(* producer that behaves as the crawler is specified to: it puts the       *)
(* records of parsed pages, suspends while the queue is full, and sets the *)
(* event once, after its last put.                                         *)
(***************************************************************************)
\* A record whose headings hold a value that is not a string.
MalformedRecord ==
    [doc_id |-> generate_content_hash(<<"quick">>), url |-> Href(5),
     final_url |-> Href(5), title |-> <<"quick">>, headings |-> <<NotAString>>,
     content |-> <<"quick">>, links |-> <<>>]

ProducerPages == {1, 2, 3}

\* The records of the producer: the pages of the web as the crawler parses
\* them, and a malformed record.
ProducerRecords ==
    {parse_response_and_make_page_model(Fetch(Href(p))) : p \in ProducerPages}
    \cup {MalformedRecord}

\* The producer parses a page once (a URL is fetched at most once) and puts
\* its record, waiting while the queue is full.
ProducerPut(record) ==
    /\ ~crawl_done
    /\ Len(putLog) < MaxPuts
    /\ record \notin Range(putLog)
    /\ Len(page_model_frontier) < PageQueueCapacity
    /\ page_model_frontier' = Append(page_model_frontier, record)
    /\ putLog' = Append(putLog, record)
    /\ UNCHANGED <<crawl_done, configVars, crawlerVars, indexerVars, queryView,
                   shutdownVars>>

ProducerSetDone ==
    /\ ~crawl_done
    /\ crawl_done' = TRUE
    /\ UNCHANGED <<page_model_frontier, putLog, configVars, crawlerVars,
                   indexerVars, queryView, shutdownVars>>

IndexerInit ==
    /\ Init
    /\ MAX_LIMIT = MaxLimitBound
    /\ BATCH_SIZE = MaxBatchBound
    /\ RESPONSE_SIZE = MaxResponseSize
    /\ TOP_K_PER_TERM = MaxTopK
    /\ web \in IndexerWebs
    /\ url_frontier = <<Href(1)>>

IndexerNext ==
    \/ \E record \in ProducerRecords : ProducerPut(record)
    \/ ProducerSetDone
    \/ IndexerCheck
    \/ IndexerWait
    \/ \E query \in Queries : Query(query)

IndexerSpec == IndexerInit /\ [][IndexerNext]_vars

\* Records a caller can put on the queue although the crawler builds none of
\* them (PageModel is a dataclass and checks no type): the content, a heading
\* or the title is not a string, or the doc_id is not hashable.  Each has a
\* term in a field that comes before the value that raises.
RaisingRecords ==
    { MalformedRecord,
      [MalformedRecord EXCEPT !.headings = <<<<"alpha">>>>,
                              !.content = NotAString],
      [MalformedRecord EXCEPT !.headings = <<<<"alpha">>>>,
                              !.title = NotAString],
      [MalformedRecord EXCEPT !.headings = <<<<"alpha">>>>,
                              !.doc_id = Unhashable] }

RaisingNext ==
    \/ \E record \in ProducerRecords \cup RaisingRecords : ProducerPut(record)
    \/ ProducerSetDone
    \/ IndexerCheck
    \/ IndexerWait

\* start_indexing against a producer that also puts records whose update
\* raises.
RaisingSpec == IndexerInit /\ [][RaisingNext]_vars

\* The indexer and the queries over the web of the three short documents,
\* for every RESPONSE_SIZE and TOP_K_PER_TERM of the model.
QueryInit ==
    /\ Init
    /\ MAX_LIMIT = MaxLimitBound
    /\ BATCH_SIZE = MaxBatchBound
    /\ web \in QueryWebs
    /\ url_frontier = <<Href(1)>>

QuerySpec == QueryInit /\ [][IndexerNext]_vars

\* The crawler alone, for every MAX_LIMIT, BATCH_SIZE, web and seed list of the
\* model.
CrawlerInit ==
    /\ Init
    /\ RESPONSE_SIZE = MaxResponseSize
    /\ TOP_K_PER_TERM = MaxTopK

CrawlerSpec == CrawlerInit /\ [][CrawlerStep]_vars

\* The indexer and the queries over the web of the documents with equal
\* scores.
TieInit ==
    /\ Init
    /\ MAX_LIMIT = MaxLimitBound
    /\ BATCH_SIZE = MaxBatchBound
    /\ RESPONSE_SIZE = MaxResponseSize
    /\ TOP_K_PER_TERM = MaxTopK
    /\ web \in TieWebs
    /\ url_frontier = <<Href(1)>>

TieSpec == TieInit /\ [][IndexerNext]_vars

(***************************************************************************)
(* Shutdown.  main.py runs its finally block when the signal ends the      *)
(* query loop; app.py calls shutdown_async_services from the Flask thread  *)
(* when app.run returns.                                                   *)
(***************************************************************************)
\* main.py: the shutdown signal ends the query loop and main enters the
\* finally block, where it first awaits the crawler task.
MainShutdownSignal ==
    /\ shutdownPc = "running"
    /\ shutdownPc' = "await_crawler_task"
    /\ UNCHANGED <<client_closed, configVars, crawlerVars, queueVars,
                   indexerVars, queryView>>

\* main.py, the finally block: await crawler_task returns when start_crawler
\* has returned; await indexer_task returns when start_indexing has returned
\* and raises what start_indexing raised, which leaves the block before
\* aclose; then the client is closed and main returns.
MainFinally ==
    /\ shutdownPc \in {"await_crawler_task", "await_indexer_task"}
    /\ IF shutdownPc = "await_crawler_task"
       THEN /\ crawlerPc = "done"
            /\ shutdownPc' = "await_indexer_task"
            /\ client_closed' = client_closed
       ELSE /\ indexerPc \in {"exited", "crashed"}
            /\ shutdownPc' = "stopped"
            /\ client_closed' = (indexerPc = "exited")
    /\ UNCHANGED <<configVars, crawlerVars, queueVars, indexerVars, queryView>>

\* app.py, shutdown_async_services: _shutdown runs on the background loop and
\* closes the client.  Of the requests in flight, those that have not
\* completed end with an error.
AppShutdown ==
    /\ shutdownPc = "running"
    /\ client_closed' = TRUE
    /\ shutdownPc' = "stop_loop"
    /\ \E interrupted \in SUBSET (1..Len(urls)) : failed' = interrupted
    /\ UNCHANGED <<url_frontier, visited_urls, crawlerPc, urls, jsonl, fetchLog,
                   configVars, queueVars, indexerVars, queryView>>

\* app.py, shutdown_async_services: bg_loop.stop is called; the loop runs no
\* task from then on, wherever the tasks are.
AppStopLoop ==
    /\ shutdownPc = "stop_loop"
    /\ shutdownPc' = "stopped"
    /\ UNCHANGED <<client_closed, configVars, crawlerVars, queueVars,
                   indexerVars, queryView>>

\* The event loop runs its tasks until it is stopped.
LoopRuns == shutdownPc # "stopped"

ShutdownNext ==
    \/ LoopRuns /\ CrawlerStep
    \/ LoopRuns /\ IndexerStep
    \/ MainShutdownSignal
    \/ MainFinally
    \/ AppShutdown
    \/ AppStopLoop

\* The crawler and the indexer of main.py or app.py with a shutdown at any
\* moment.
ShutdownSpec == FairInit /\ [][ShutdownNext]_vars

(***************************************************************************)
(* Properties.                                                             *)
(***************************************************************************)
\* The doc_ids that occur in some posting of the index.
IndexDocIds(index) == UNION {DOMAIN index[t] : t \in DOMAIN index}

\* The records start_indexing applies: those whose update does not raise.
WellFormed(model) == ~IndexUpdateRaises(model)

\* C1: in every reachable state of a crawl the visited set holds at most
\* MAX_LIMIT URLs.
C1_VisitedWithinLimit == Cardinality(visited_urls) <= MAX_LIMIT

\* C2: no normalised URL is fetched more than once: no URL occurs twice among
\* the requests the crawler has sent.
C2_NoRefetch ==
    \A i, j \in 1..Len(fetchLog) : i # j => fetchLog[i] # fetchLog[j]

\* C3: when every batch of requests returns, the loop of start_crawler
\* eventually exits.
C3_CrawlerTerminates == <>(crawlerPc = "done")

\* A crawl of several batches over a web whose seed page links back to itself
\* has ended.
C3_Witness ==
    /\ crawlerPc = "done"
    /\ Len(jsonl) >= 2
    /\ Href(1) \in Range(web[1].hrefs)

\* The seed page links to more than MAX_LIMIT distinct pages, every page is
\* answered with a document and no two documents have the same text.
SeedFansOut ==
    /\ Len(fetchLog) >= 1 /\ fetchLog[1] = Href(1)
    /\ \A p \in 1..NPages : web[p].kind \in {"html", "xml"}
    /\ \A p, q \in 1..NPages :
          p # q => extract_content_from_soup(web[p]) # extract_content_from_soup(web[q])
    /\ Cardinality({normalize_url(h) : h \in Range(web[1].hrefs)} \ {Href(1)})
          > MAX_LIMIT
    /\ \A h \in Range(web[1].hrefs) : LinkAccepted(h) /\ h.ext = ""

\* C4: when the seed links to more than MAX_LIMIT distinct pages and every
\* fetch succeeds with distinct content, the crawl ends having fetched exactly
\* MAX_LIMIT URLs, and once the indexer has nothing left to take the index
\* holds exactly MAX_LIMIT doc_ids.
C4_ExactlyMaxLimit ==
    (SeedFansOut /\ crawlerPc = "done" /\ page_model_frontier = <<>>
        /\ indexerPc # "crashed")
    => /\ Len(fetchLog) = MAX_LIMIT
       /\ Cardinality(IndexDocIds(inverted_index)) = MAX_LIMIT

\* C5: the indexer leaves its loop only when crawl_done is set and the page
\* queue is empty, and then every record ever put on the queue has been taken,
\* in order, and its scores and its doc store entry are in place.
C5_ExitOnlyWhenDrained ==
    indexerPc = "exited" =>
        /\ crawl_done
        /\ page_model_frontier = <<>>
        /\ ackLog = putLog
        /\ \A i \in 1..Len(putLog) :
              LET r == putLog[i]
              IN  /\ r.doc_id \in DOMAIN doc_store
                  /\ \A t \in DOMAIN term_scores(r) :
                        /\ t \in DOMAIN inverted_index
                        /\ r.doc_id \in DOMAIN inverted_index[t]
                        /\ inverted_index[t][r.doc_id] >= term_scores(r)[t]

\* The indexer has left its loop after the producer put two records or more.
C5_Witness == indexerPc = "exited" /\ Len(putLog) >= 2

\* C6: once the loop of start_crawler has exited, the indexer eventually
\* leaves its loop.
C6_ShutdownLive == (crawlerPc = "done") ~> (indexerPc = "exited")

\* C7: every record the crawler parsed is handed to the indexer through the
\* page queue and processed in the order of the hand-off: when the crawl has
\* ended, the records acknowledged followed by the records still queued are
\* the records parsed, in order.
C7_HandoffInOrder ==
    crawlerPc = "done" => ackLog \o page_model_frontier = jsonl

\* C8: the page queue never holds more than its capacity, and the crawler
\* does not run ahead of the indexer by more than the queue holds: the records
\* parsed and not yet taken by the indexer are at most the capacity plus the
\* one record whose put is suspended.
C8_Backpressure ==
    /\ Len(page_model_frontier) <= PageQueueCapacity
    /\ Len(jsonl) - Len(ackLog) <= PageQueueCapacity + 1

\* C9: a query that starts after the indexer acknowledged a record reads an
\* index that has, for every term of the record that is not a stop word, a
\* score of at least the record's score under the record's doc_id, and a doc
\* store that has the record's doc_id.
C9_QuerySeesAcknowledged ==
    \A i \in 1..queryView.acked :
        LET r == ackLog[i]
        IN  WellFormed(r) =>
              /\ r.doc_id \in DOMAIN queryView.doc_store
              /\ \A t \in DOMAIN term_scores(r) :
                    /\ t \in DOMAIN queryView.inverted_index
                    /\ r.doc_id \in DOMAIN queryView.inverted_index[t]
                    /\ queryView.inverted_index[t][r.doc_id] >= term_scores(r)[t]

\* A query ran after two records had been acknowledged, the second one with a
\* term the first one has too.
C9_Witness ==
    /\ queryView.query # <<>>
    /\ queryView.acked >= 2
    /\ WellFormed(ackLog[1]) /\ WellFormed(ackLog[2])
    /\ ackLog[1].doc_id # ackLog[2].doc_id
    /\ DOMAIN term_scores(ackLog[1]) \cap DOMAIN term_scores(ackLog[2]) # {}

RECURSIVE IndexAfter(_)
\* The index after the well-formed records of a sequence were applied in order.
IndexAfter(records) ==
    IF records = <<>> THEN EmptyMap
    ELSE LET before == IndexAfter(SubSeq(records, 1, Len(records) - 1))
             r == records[Len(records)]
         IN  IF WellFormed(r) THEN MergeScores(before, r.doc_id, term_scores(r))
             ELSE before

\* The doc_ids of the well-formed records of a sequence.
DocIdsOf(records) ==
    {records[i].doc_id : i \in {j \in 1..Len(records) : WellFormed(records[j])}}

\* C10: whatever a query reads, every record is applied in full or not at
\* all: the index and the doc store read are those of one and the same prefix
\* of the records put on the queue, and every doc_id of a posting has a doc
\* store entry.
C10_NoHalfAppliedRecord ==
    /\ \E k \in 0..Len(putLog) :
          /\ queryView.inverted_index = IndexAfter(SubSeq(putLog, 1, k))
          /\ DOMAIN queryView.doc_store = DocIdsOf(SubSeq(putLog, 1, k))
    /\ IndexDocIds(queryView.inverted_index) \subseteq DOMAIN queryView.doc_store

\* A query read index and doc store after one record or more was applied and
\* while another record was still waiting in the queue.
C10_Witness ==
    /\ queryView.query # <<>>
    /\ queryView.acked >= 1
    /\ queryView.inverted_index # EmptyMap
    /\ queryView.acked < Len(putLog)

\* The words of the modelled pages and queries, lowercased.
Vocabulary == {"the", "of", "quick", "fox", "alpha", "beta", "gamma"}

\* How often the term occurs among the words of a field, whatever their case.
Occurrences(field, term) ==
    Cardinality({i \in 1..Len(field) : Lower(field[i]) = term})

\* The records start_indexing has taken from the queue, in order.
TakenRecords == SubSeq(putLog, 1, Len(putLog) - Len(page_model_frontier))

\* C11: after one record was indexed into the empty index, every term that is
\* not a stop word and occurs a times in the content, b times in the joined
\* headings and c times in the title has the score a + 4b + 8c under the
\* record's doc_id, and a term that occurs nowhere has no posting.
C11_ScoringFormula ==
    (Len(TakenRecords) = 1 /\ WellFormed(TakenRecords[1])) =>
        LET r == TakenRecords[1]
        IN  \A t \in Vocabulary \ STOP_WORDS :
                LET a == Occurrences(r.content, t)
                    b == Occurrences(Flatten(r.headings), t)
                    c == Occurrences(r.title, t)
                IN  IF a + b + c = 0 THEN t \notin DOMAIN inverted_index
                    ELSE /\ t \in DOMAIN inverted_index
                         /\ DOMAIN inverted_index[t] = {r.doc_id}
                         /\ inverted_index[t][r.doc_id] = a + 4 * b + 8 * c

\* One record was indexed in which a term occurs several times in the content
\* and also in the title, and another term in a heading.
C11_Witness ==
    /\ Len(TakenRecords) = 1 /\ WellFormed(TakenRecords[1])
    /\ LET r == TakenRecords[1]
       IN  /\ \E t \in DOMAIN inverted_index :
                 /\ Occurrences(r.content, t) >= 2
                 /\ Occurrences(r.title, t) >= 1
                 /\ inverted_index[t][r.doc_id] >= 10
           /\ \E t \in DOMAIN inverted_index :
                 Occurrences(Flatten(r.headings), t) >= 1

RECURSIVE ScoreSum(_, _, _)
\* The sum, over the well-formed records of a sequence that have the doc_id,
\* of the record's score for the term.
ScoreSum(records, doc_id, term) ==
    IF records = <<>> THEN 0
    ELSE LET r == Head(records)
             score == IF WellFormed(r) /\ r.doc_id = doc_id
                         /\ term \in DOMAIN term_scores(r)
                      THEN term_scores(r)[term] ELSE 0
         IN  score + ScoreSum(Tail(records), doc_id, term)

\* C12: scores of records with the same doc_id add up: the score of every
\* (term, doc_id) pair of the index is the sum of the scores the records
\* indexed under that doc_id have for the term (one entry per pair, no
\* earlier score replaced), and every such sum above zero is in the index.
C12_AdditiveMerge ==
    /\ \A t \in DOMAIN inverted_index : \A d \in DOMAIN inverted_index[t] :
          inverted_index[t][d] = ScoreSum(TakenRecords, d, t)
    /\ \A i \in 1..Len(TakenRecords) :
          LET r == TakenRecords[i]
          IN  WellFormed(r) =>
                \A t \in DOMAIN term_scores(r) :
                    /\ t \in DOMAIN inverted_index
                    /\ r.doc_id \in DOMAIN inverted_index[t]

\* Two records with the same doc_id and different URLs were indexed, and a
\* term's score under that doc_id is twice the score of one record.
C12_Witness ==
    \E i, j \in 1..Len(TakenRecords) :
        /\ i < j
        /\ WellFormed(TakenRecords[i]) /\ WellFormed(TakenRecords[j])
        /\ TakenRecords[i].doc_id = TakenRecords[j].doc_id
        /\ TakenRecords[i].final_url # TakenRecords[j].final_url
        /\ \E t \in DOMAIN inverted_index :
              /\ TakenRecords[i].doc_id \in DOMAIN inverted_index[t]
              /\ inverted_index[t][TakenRecords[i].doc_id]
                    = 2 * term_scores(TakenRecords[i])[t]

\* C13: no stop word is a key of the inverted index.
C13_NoStopWordKey == DOMAIN inverted_index \cap STOP_WORDS = {}

\* A field of the kind holds a stop word in some record that was indexed.
StopWordIndexedIn(kind) ==
    \E i \in 1..Len(TakenRecords) :
        LET r == TakenRecords[i]
            field == CASE kind = "content" -> r.content
                       [] kind = "headings" -> Flatten(r.headings)
                       [] OTHER -> r.title
        IN  /\ WellFormed(r)
            /\ \E k \in 1..Len(field) : Lower(field[k]) \in STOP_WORDS

\* Records with a stop word in the content, in a heading and in the title
\* were indexed.
C13_Witness ==
    /\ StopWordIndexedIn("content")
    /\ StopWordIndexedIn("headings")
    /\ StopWordIndexedIn("title")
    /\ inverted_index # EmptyMap

\* C14: in every step, every (term, doc_id) pair of the index stays in the
\* index and its score does not decrease.
C14_IndexMonotone ==
    [][\A t \in DOMAIN inverted_index :
          /\ t \in DOMAIN inverted_index'
          /\ \A d \in DOMAIN inverted_index[t] :
                /\ d \in DOMAIN inverted_index'[t]
                /\ inverted_index'[t][d] >= inverted_index[t][d]]_vars

\* Two documents share a term and a third record was indexed after them.
C14_Witness ==
    /\ Len(TakenRecords) >= 3
    /\ \A i \in 1..3 : WellFormed(TakenRecords[i])
    /\ \E t \in DOMAIN inverted_index : Cardinality(DOMAIN inverted_index[t]) >= 2

\* C15: a malformed record is never fatal: whenever a record whose update
\* raises has been taken and every write succeeded, start_indexing is still
\* in its loop or has left it through its exit test.
C15_MalformedNeverFatal ==
    (/\ \E i \in 1..Len(TakenRecords) : ~WellFormed(TakenRecords[i])
     /\ inverted_index_file.state # "partial"
     /\ doc_store_file.state # "partial")
    => indexerPc \in {"check", "wait", "exited"}

\* C16: each of the two files, once written, holds a whole JSON object, and
\* that object is the in-memory structure as it is or as it was after an
\* earlier record.
C16_FilesNeverPartial ==
    /\ inverted_index_file.state # "partial"
    /\ doc_store_file.state # "partial"
    /\ inverted_index_file.state = "complete" =>
          \E k \in 0..Len(TakenRecords) :
              inverted_index_file.json = IndexAfter(SubSeq(TakenRecords, 1, k))
    /\ doc_store_file.state = "complete" =>
          \E k \in 0..Len(TakenRecords) :
              DOMAIN doc_store_file.json = DocIdsOf(SubSeq(TakenRecords, 1, k))

\* The distinct tokens of the last query that matched a posting of the index
\* the query read.
ViewTokens ==
    {t \in Range(tokenize_content_into_list_of_words(queryView.query)) \ STOP_WORDS :
        t \in DOMAIN queryView.inverted_index}

\* The AND set of the last query: the doc_ids in the posting of every matched
\* token.
ViewAndSet ==
    IF ViewTokens = {} THEN {}
    ELSE {d \in IndexDocIds(queryView.inverted_index) :
            \A t \in ViewTokens : d \in DOMAIN queryView.inverted_index[t]}

\* The doc_ids in the posting of some matched token.
ViewMatchedDocs ==
    UNION {DOMAIN queryView.inverted_index[t] : t \in ViewTokens}

RECURSIVE SumOfSet(_, _)
\* The sum of the doc_id's scores in the postings of a set of tokens.
SumOfSet(toks, doc_id) ==
    IF toks = {} THEN 0
    ELSE LET t == CHOOSE x \in toks : TRUE
             posting == queryView.inverted_index[t]
         IN  (IF doc_id \in DOMAIN posting THEN posting[doc_id] ELSE 0)
             + SumOfSet(toks \ {t}, doc_id)

\* The accumulated score of a doc_id over all matched tokens of the last query.
ViewScore(doc_id) == SumOfSet(ViewTokens, doc_id)

\* The doc_ids of the result of the last query, in order.
ViewResultIds ==
    [i \in 1..Len(queryView.results) |-> queryView.results[i].doc_id]

\* C17: a query returns at most RESPONSE_SIZE results.
C17_AtMostResponseSize == Len(queryView.results) <= RESPONSE_SIZE

\* C18: when the AND set has A < RESPONSE_SIZE docs and at least
\* RESPONSE_SIZE - A further docs are OR candidates (no posting is cut by
\* TOP_K_PER_TERM, every doc is in the doc store), the result has exactly
\* RESPONSE_SIZE entries, the first A are the AND docs by descending AND
\* score, and the others are the OR candidates with the highest accumulated
\* score.
C18_BackfillFills ==
    LET A == Cardinality(ViewAndSet)
        ids == ViewResultIds
        pool == ViewMatchedDocs \ ViewAndSet
    IN  (/\ queryView.query # <<>>
         /\ A < RESPONSE_SIZE
         /\ Cardinality(pool) >= RESPONSE_SIZE - A
         /\ \A t \in ViewTokens :
               Cardinality(DOMAIN queryView.inverted_index[t]) <= TOP_K_PER_TERM
         /\ ViewMatchedDocs \subseteq DOMAIN queryView.doc_store)
        => /\ Len(ids) = RESPONSE_SIZE
           /\ {ids[i] : i \in 1..A} = ViewAndSet
           /\ \A i, j \in 1..A : i < j => ViewScore(ids[i]) >= ViewScore(ids[j])
           /\ \A i \in (A + 1)..Len(ids) :
                 /\ ids[i] \in pool
                 /\ \A d \in pool \ Range(ids) : ViewScore(ids[i]) >= ViewScore(d)

\* C19 as stated: in the result of a query of several tokens, every doc that
\* precedes a doc outside the AND set is in the AND set.
C19_OnlyAndDocsBeforeOrDoc ==
    Len(queryView.query) >= 2 =>
        \A i, j \in 1..Len(ViewResultIds) :
            (i < j /\ ViewResultIds[j] \notin ViewAndSet)
            => ViewResultIds[i] \in ViewAndSet

\* C19, amended: in the result of a query of several tokens, no doc outside
\* the AND set precedes a doc of the AND set.
C19_AndBeforeOr ==
    Len(queryView.query) >= 2 =>
        \A i, j \in 1..Len(ViewResultIds) :
            (i < j /\ ViewResultIds[j] \in ViewAndSet)
            => ViewResultIds[i] \in ViewAndSet

\* A query of two matched tokens returned a doc of the AND set followed by a
\* backfilled doc.
C19_Witness ==
    /\ Cardinality(ViewTokens) >= 2
    /\ Len(ViewResultIds) >= 2
    /\ ViewResultIds[1] \in ViewAndSet
    /\ ViewResultIds[Len(ViewResultIds)] \notin ViewAndSet

CrawlerCanFetch ==
    /\ LoopRuns
    /\ \/ crawlerPc = "gather"
       \/ /\ crawlerPc = "loop"
          /\ url_frontier # <<>>
          /\ Cardinality(visited_urls) < MAX_LIMIT

\* C21: on shutdown the HTTP client is not closed while the crawler can still
\* issue a fetch.
C21_ClientClosedAfterCrawlerHalted == client_closed => ~CrawlerCanFetch

\* C22: CrawlDone is set exactly when the loop of start_crawler has exited:
\* unset while the crawler is in its loop, set once it has left it.
C22_CrawlDoneIffLoopExited == crawl_done <=> crawlerPc = "done"

\* C23: persist before acknowledge: in every step that acknowledges a record,
\* both files hold a whole object after the step, the index file the index in
\* memory and the doc store file the doc store in memory, with the entries of
\* the record acknowledged when its update did not raise.
C23_PersistBeforeAck ==
    [][ackLog' # ackLog =>
          /\ inverted_index_file' = [state |-> "complete", json |-> inverted_index']
          /\ doc_store_file' = [state |-> "complete", json |-> doc_store']
          /\ LET r == ackLog'[Len(ackLog')]
             IN  WellFormed(r) =>
                   /\ r.doc_id \in DOMAIN doc_store_file'.json
                   /\ \A t \in DOMAIN term_scores(r) :
                         /\ t \in DOMAIN inverted_index_file'.json
                         /\ r.doc_id \in DOMAIN inverted_index_file'.json[t]]_vars

\* Two records were acknowledged after a write had failed for neither, and
\* the files hold the index and the doc store of both.
C23_Witness ==
    /\ Len(ackLog) >= 2
    /\ WellFormed(ackLog[1]) /\ WellFormed(ackLog[2])
    /\ ackLog[1].doc_id # ackLog[2].doc_id
    /\ inverted_index_file = [state |-> "complete", json |-> inverted_index]
    /\ doc_store_file = [state |-> "complete", json |-> doc_store]
    /\ Cardinality(DOMAIN doc_store_file.json) = 2

\* A write of the index file or of the doc store file has failed.
WriteFailed ==
    inverted_index_file.state = "partial" \/ doc_store_file.state = "partial"

\* C24: once a write of one of the files has failed, the index and the doc
\* store in memory hold the contributions of every record taken so far, the
\* record whose write failed included, and a query that runs then reads
\* exactly that index and doc store.
C24_MemoryKeptOnWriteFailure ==
    [][WriteFailed' =>
          /\ inverted_index' = IndexAfter(TakenRecords')
          /\ DOMAIN doc_store' = DocIdsOf(TakenRecords')
          /\ queryView' # queryView =>
                /\ queryView'.inverted_index = IndexAfter(TakenRecords')
                /\ DOMAIN queryView'.doc_store = DocIdsOf(TakenRecords')]_vars

\* After a first record was acknowledged the write failed for a second one,
\* and a query that ran afterwards returned a result from an index that has
\* the second record.
C24_Witness ==
    /\ WriteFailed
    /\ Len(ackLog) >= 1
    /\ Len(TakenRecords) = Len(ackLog) + 1
    /\ LET r == TakenRecords[Len(TakenRecords)]
       IN  /\ WellFormed(r)
           /\ r.doc_id \notin DocIdsOf(ackLog)
           /\ r.doc_id \in DOMAIN queryView.doc_store
           /\ r.doc_id \in IndexDocIds(queryView.inverted_index)
    /\ Len(queryView.results) >= 1

\* The enqueue policy: with available = MAX_LIMIT - |frontier|, nothing when
\* available <= 0, otherwise the normalised forms of the first
\* min(len(links), available) links that are not in the visited set.
EnqueuePolicy(frontier, visited, links) ==
    LET available == MAX_LIMIT - Len(frontier)
        considered == SubSeq(links, 1, Min(Len(links), available))
    IN  IF available <= 0 THEN <<>>
        ELSE SelectSeq([i \in 1..Len(considered) |-> normalize_url(considered[i])],
                       LAMBDA u : u \notin visited)

RECURSIVE FrontierAfterEnqueues(_, _, _)
\* The frontier after the links of the records were enqueued, record by record.
FrontierAfterEnqueues(frontier, visited, records) ==
    IF records = <<>> THEN frontier
    ELSE FrontierAfterEnqueues(
             frontier \o EnqueuePolicy(frontier, visited, Head(records).links),
             visited, Tail(records))

\* C25: the frontier never holds more than MAX_LIMIT URLs, the crawler is never
\* suspended in a put on its own full frontier, and the step that handles a
\* batch leaves the frontier the enqueue policy gives for the links of the
\* pages it parsed.
C25_FrontierCapacity ==
    [][/\ Len(url_frontier') <= MAX_LIMIT
       /\ crawlerPc' # "blocked"
       /\ crawlerPc = "gather" =>
             url_frontier' = FrontierAfterEnqueues(
                                 url_frontier, visited_urls,
                                 SubSeq(jsonl', Len(jsonl) + 1, Len(jsonl')))]_vars

\* A batch of two pages was handled: the links of the first page filled the
\* frontier up to MAX_LIMIT, more of them were left out, and the enqueue of
\* the second page, whose first link is not a visited URL, found no space and
\* pushed nothing.
C25_Witness ==
    /\ crawlerPc = "loop"
    /\ Len(fetchLog) = 2 /\ Len(jsonl) = 2
    /\ Len(url_frontier) = MAX_LIMIT
    /\ url_frontier = EnqueuePolicy(<<>>, visited_urls, jsonl[1].links)
    /\ Len(jsonl[1].links) > MAX_LIMIT
    /\ jsonl[2].links # <<>>
    /\ normalize_url(jsonl[2].links[1]) \notin visited_urls

\* A response the crawler gets no page from: an exception value, a status
\* other than 200, another content type, or a document that does not parse.
Faulty(response) ==
    response.page.kind \in {"exception", "status", "binary", "parse_error"}

\* C26: in the step that handles a batch with a faulty response, no record is
\* written for the URL of a faulty response and only the links of the records
\* written are enqueued; every other response of the batch gets its record,
\* in order; and the crawler goes on with its loop.
C26_FaultIsolation ==
    [][(crawlerPc = "gather" /\ \E i \in 1..Len(Responses) : Faulty(Responses[i])) =>
          LET good == SelectSeq(Responses, LAMBDA r : ~Faulty(r))
              new == SubSeq(jsonl', Len(jsonl) + 1, Len(jsonl'))
          IN  /\ \A k \in 1..Len(new) : \A i \in 1..Len(Responses) :
                    Faulty(Responses[i]) => new[k].url # Responses[i].url
              /\ url_frontier' = FrontierAfterEnqueues(url_frontier, visited_urls,
                                                       new)
              /\ [k \in 1..Len(new) |-> new[k].url]
                    = [k \in 1..Len(good) |-> good[k].url]
              /\ crawlerPc' = "loop"]_vars

\* The place of a doc_id in the ascending order of the doc_ids.  A doc_id is a
\* hex digest; the digests of the pages are taken to ascend with the page
\* numbers (nothing in the code depends on which order they have).
DocIdRank(doc_id) ==
    CHOOSE p \in 1..NPages :
        /\ generate_content_hash(extract_content_from_soup(web[p])) = doc_id
        /\ \A q \in 1..(p - 1) :
              generate_content_hash(extract_content_from_soup(web[q])) # doc_id

\* C27: of two docs of the AND set in the result, the one with the higher
\* summed score comes first, and of two with the same score the one with the
\* smaller doc_id.
C27_AndRankingOrder ==
    \A i, j \in 1..Len(ViewResultIds) :
        (/\ i < j
         /\ ViewResultIds[i] \in ViewAndSet
         /\ ViewResultIds[j] \in ViewAndSet)
        => \/ ViewScore(ViewResultIds[i]) > ViewScore(ViewResultIds[j])
           \/ /\ ViewScore(ViewResultIds[i]) = ViewScore(ViewResultIds[j])
              /\ DocIdRank(ViewResultIds[i]) < DocIdRank(ViewResultIds[j])

RECURSIVE WithoutDuplicates(_)
\* The sequence with every element kept at its first occurrence only.
WithoutDuplicates(seq) ==
    IF seq = <<>> THEN <<>>
    ELSE LET rest == WithoutDuplicates(SubSeq(seq, 1, Len(seq) - 1))
             last == seq[Len(seq)]
         IN  IF last \in Range(rest) THEN rest ELSE Append(rest, last)

\* The last query with its duplicate tokens removed.
ViewQueryWithoutDuplicates ==
    WithoutDuplicates(tokenize_content_into_list_of_words(queryView.query))

\* C28: the result of a query with repeated tokens is the result of the query
\* with its duplicate tokens removed, against the same index and doc store,
\* however the run of that query iterates its set of AND docs.
C28_RepeatedTokensNoEffect ==
    Len(queryView.query) > Len(ViewQueryWithoutDuplicates) =>
        \A common_keys \in SetOrders(common_set(ViewQueryWithoutDuplicates,
                                                queryView.inverted_index)) :
            queryView.results =
                generate_response_for_query(ViewQueryWithoutDuplicates,
                                            queryView.inverted_index,
                                            queryView.doc_store, key_order,
                                            common_keys)

\* C29: every link of a parsed page, and so every URL that enters the frontier
\* from a page, has the scheme https, a host that ends with an accepted
\* domain, and a path that ends with no skipped extension, whatever query
\* string or fragment follows the path.
C29_LinksFiltered ==
    \A k \in 1..Len(jsonl) : \A i \in 1..Len(jsonl[k].links) :
        LET link == jsonl[k].links[i]
        IN  /\ link.scheme = "https"
            /\ HostSuffixes(link) \cap ACCEPTED_DOMAINS # {}
            /\ link.ext \notin SKIP_EXTENSIONS

\* C30: once a batch has been handled, every visited URL whose response is a
\* page that parses has exactly one record.
C30_NoFetchedPageDiscarded ==
    crawlerPc \in {"loop", "done"} =>
        \A u \in visited_urls :
            ~Faulty(Fetch(u)) =>
                Cardinality({k \in 1..Len(jsonl) : jsonl[k].url = u}) = 1


\* start_indexing takes the record at the head of the queue in this step.
TakesRecord == Len(page_model_frontier') < Len(page_model_frontier)

\* C31: a step of the indexer that takes a record whose index update raises
\* leaves the inverted index and the doc store in memory as they were: no
\* entry is added and none is changed.
C31_RaisingUpdateLeavesMemoryUntouched ==
    [][(TakesRecord /\ IndexUpdateRaises(Head(page_model_frontier))) =>
          /\ inverted_index' = inverted_index
          /\ doc_store' = doc_store]_vars

====
